---- MODULE Spec2Model ----
(***************************************************************************)
(* Model of src/app.py, the Streamlit page "Pickme Cinime".                *)
(*                                                                         *)
(* Streamlit re-executes the whole script on every widget event; the only  *)
(* state that survives a run is st.session_state (chat_history, chat).     *)
(* One behaviour of this module is one browser session: a sequence of      *)
(* script runs, each cut into the steps that read an input or change the   *)
(* conversation log.                                                       *)
(*                                                                         *)
(* Lines 253-255 of the file (an `elif` after a `with` block) do not parse *)
(* as Python; under the only `if` they could belong to (line 171) the      *)
(* branch is unreachable, so the model is of lines 1-252.                  *)
(*                                                                         *)
(* Texts are modelled as the sequence of their parts: a string literal is  *)
(* one part, an f-string is its literal followed by the interpolated       *)
(* value; the empty sequence is None / "" (both falsy in Python).          *)
(***************************************************************************)
EXTENDS Naturals, Sequences, FiniteSets, TLC

VARIABLES
    environ,              \* os.environ.get("GOOGLE_API_KEY")
    secrets,              \* st.secrets: no file, or the stored GOOGLE_API_KEY
    shapes,               \* which response shapes the provider returns in this session
    runs_left,            \* interactions the session may still start
    chat_history,         \* st.session_state.chat_history
    chat,                 \* st.session_state.chat
    pc,                   \* position of the current script run
    buttons,              \* moods whose st.button reports a click in this run
    chat_input,           \* value st.chat_input returns in this run
    api_key,
    secrets_read,         \* st.secrets was consulted in this run
    calls,                \* collaborator operations invoked so far in the session
    errors,               \* st.error diagnostics shown in this run
    captions,             \* source captions rendered in this run
    mood_button_clicked,
    user_input_for_ai,
    actual_input,
    ai_response,
    sends,                \* get_ai_response calls of this run: the prompt, what send_message did
    n0,                   \* len(chat_history) when this run started
    prev_failed           \* the previous run's collaborator call raised

vars == << environ, secrets, shapes, runs_left, chat_history, chat, pc, buttons,
           chat_input, api_key, secrets_read, calls, errors, captions,
           mood_button_clicked, user_input_for_ai, actual_input, ai_response,
           sends, n0, prev_failed >>

----------------------------------------------------------------------------
(* Bounds of the model. *)

MaxInteractions == 2
MaxChunks == 2
MaxClicks == 2

----------------------------------------------------------------------------
(* Python values. *)

None == "None"

NoText == << >>

Lit(s) == << s >>

Fmt(literal, value) == << literal >> \o value

Contains(text, sub) ==
    /\ sub # << >>
    /\ \E i \in 0..Len(text) :
          /\ i + Len(sub) <= Len(text)
          /\ SubSeq(text, i + 1, i + Len(sub)) = sub

Falsy(v) == v \in {None, ""}

Get(d, k, default) == IF k \in DOMAIN d THEN d[k] ELSE default

----------------------------------------------------------------------------
(* Program constants. *)

MoodOrder == << "Happy", "Thrilling", "Thoughtful", "Relaxing", "Funny" >>

Moods == { MoodOrder[i] : i \in DOMAIN MoodOrder }

MOOD_PROMPTS ==
    [ m \in Moods |->
        CASE m = "Happy" ->
               Lit("I'm in the mood for something happy and uplifting! Can you recommend some movies or series?")
          [] m = "Thrilling" ->
               Lit("I want something thrilling and suspenseful. Give me some movie or series recommendations.")
          [] m = "Thoughtful" ->
               Lit("I'd like a thoughtful or intriguing movie/series. What do you suggest?")
          [] m = "Relaxing" ->
               Lit("Recommend some relaxing or chill movies/series for a quiet evening.")
          [] m = "Funny" ->
               Lit("I need a good laugh! What are some funny movies or series?") ]

KEY_NOT_FOUND ==
    Lit("Google API Key not found. Please set the GOOGLE_API_KEY environment variable or add it to Streamlit secrets.")

INIT_ERROR == "Error initializing the Gemini API: "

COMM_ERROR == "Error communicating with the AI: "

TEXT_ACCESS_ERROR == Lit("Error accessing AI response text.")

TEXT_EXTRACT_ERROR == "Error extracting text from AI response: "

FALLBACK_ATTR == Lit("Sorry, I encountered an issue processing the response.")

FALLBACK_OTHER == Lit("Sorry, I had trouble understanding the AI's answer.")

NO_RESPONSE == Lit("Sorry, I couldn't get a response. Please try again.")

UNTITLED == "Untitled"

----------------------------------------------------------------------------
(* The provider's response object (google.generativeai GenerateContentResponse) *)
(* as far as the script reads it: the text accessor, candidates[0] and its      *)
(* grounding_metadata.  A field an object does not have raises AttributeError   *)
(* when read ("missing"); a field that is there is falsy ("empty") or truthy.   *)

Answers == { Lit("a1") }

ErrDetails == { Lit("e1") }

TextOutcomes ==
    { [raises |-> "no", value |-> a] : a \in Answers }
      \cup { [raises |-> "AttributeError", value |-> NoText] }
      \cup { [raises |-> "Exception", value |-> e] : e \in ErrDetails }

NoWeb == [present |-> FALSE, title |-> None, uri |-> None]

Web(t, u) == [present |-> TRUE, title |-> t, uri |-> u]

ChunkValues ==
    { [web |-> NoWeb] }
      \cup { [web |-> Web(t, u)] : t \in {None, "t1"}, u \in {None, "u1", "u2"} }

SeqsUpTo(S, n) == UNION { [1..k -> S] : k \in 0..n }

FieldStates == { "missing", "empty", "populated" }

NoMeta ==
    [ present |-> FALSE, grounding_attributions |-> "empty",
      web_search_queries |-> "empty", has_chunks |-> FALSE,
      grounding_chunks |-> << >> ]

Meta(a, q, hc, cs) ==
    [ present |-> TRUE, grounding_attributions |-> a, web_search_queries |-> q,
      has_chunks |-> hc, grounding_chunks |-> cs ]

AllMetas ==
    { Meta(a, q, TRUE, cs) :
        a \in FieldStates, q \in FieldStates, cs \in SeqsUpTo(ChunkValues, MaxChunks) }
      \cup { Meta(a, q, FALSE, << >>) : a \in FieldStates, q \in FieldStates }

Candidate(gm) == [grounding_metadata |-> gm]

AllResponses ==
    { [text |-> t, candidates |-> c] :
        t \in TextOutcomes,
        c \in { << >>, << Candidate(NoMeta) >> }
                \cup { << Candidate(gm) >> : gm \in AllMetas } }

(* The shapes a multi-interaction session draws from: a plain answer, a text   *)
(* accessor that raises (either way), a grounded answer with one untitled      *)
(* source, and a grounding_metadata object without the grounding_attributions  *)
(* field.                                                                      *)
SessionResponses ==
    { [text |-> [raises |-> "no", value |-> Lit("a1")], candidates |-> << >>],
      [text |-> [raises |-> "Exception", value |-> Lit("e1")], candidates |-> << >>],
      [text |-> [raises |-> "AttributeError", value |-> NoText],
       candidates |-> << Candidate(NoMeta) >>],
      [text |-> [raises |-> "no", value |-> Lit("a1")],
       candidates |-> << Candidate(Meta("empty", "populated", TRUE,
                                        << [web |-> Web(None, "u1")] >>)) >>],
      [text |-> [raises |-> "no", value |-> Lit("a1")],
       candidates |-> << Candidate(Meta("missing", "populated", TRUE, << >>)) >>] }

Responses(sh) == IF sh = "all" THEN AllResponses ELSE SessionResponses

ClickSets == { b \in SUBSET Moods : Cardinality(b) <= MaxClicks }

Queries == { Lit("q1") }

----------------------------------------------------------------------------
(* Lines 71-86: the credential and the model object. *)

(* StartupResult without the st.stop() of line 79. *)
StartupResultNoStop(env, sec, fails) ==
    LET consult == Falsy(env)
        key     == IF consult /\ sec # "NoFile" THEN sec ELSE env
        shown   == IF Falsy(key) THEN << KEY_NOT_FOUND >> ELSE << >>
    IN  IF consult /\ sec = "NoFile"
        THEN [ api_key |-> env, secrets_read |-> TRUE, stop |-> TRUE, calls |-> {},
               errors |-> << Fmt(INIT_ERROR, Lit("No secrets found")) >> ]
        ELSE IF fails = "configure"
        THEN [ api_key |-> key, secrets_read |-> consult, stop |-> TRUE,
               calls |-> {"configure"},
               errors |-> shown \o << Fmt(INIT_ERROR, Lit("e1")) >> ]
        ELSE IF fails = "GenerativeModel"
        THEN [ api_key |-> key, secrets_read |-> consult, stop |-> TRUE,
               calls |-> {"configure", "GenerativeModel"},
               errors |-> shown \o << Fmt(INIT_ERROR, Lit("e1")) >> ]
        ELSE [ api_key |-> key, secrets_read |-> consult, stop |-> FALSE,
               calls |-> {"configure", "GenerativeModel"}, errors |-> shown ]

StartupResult(env, sec, fails) ==
    LET consult == Falsy(env)
        key     == IF consult /\ sec # "NoFile" THEN sec ELSE env
    IN  IF consult /\ sec = "NoFile"
        THEN \* st.secrets.get raises: no secrets file
             [ api_key |-> env, secrets_read |-> TRUE, stop |-> TRUE, calls |-> {},
               errors |-> << Fmt(INIT_ERROR, Lit("No secrets found")) >> ]
        ELSE IF Falsy(key)
        THEN [ api_key |-> key, secrets_read |-> consult, stop |-> TRUE, calls |-> {},
               errors |-> << KEY_NOT_FOUND >> ]
        ELSE IF fails = "configure"
        THEN [ api_key |-> key, secrets_read |-> consult, stop |-> TRUE,
               calls |-> {"configure"},
               errors |-> << Fmt(INIT_ERROR, Lit("e1")) >> ]
        ELSE IF fails = "GenerativeModel"
        THEN [ api_key |-> key, secrets_read |-> consult, stop |-> TRUE,
               calls |-> {"configure", "GenerativeModel"},
               errors |-> << Fmt(INIT_ERROR, Lit("e1")) >> ]
        ELSE [ api_key |-> key, secrets_read |-> consult, stop |-> FALSE,
               calls |-> {"configure", "GenerativeModel"}, errors |-> << >> ]

----------------------------------------------------------------------------
(* Lines 138-144: the captions of the sources recorded in the log. *)

RECURSIVE SourceCaptions(_, _)
SourceCaptions(srcs, i) ==
    IF i > Len(srcs) THEN << >>
    ELSE << [ n |-> i, title |-> Get(srcs[i], "title", "N/A"),
              uri |-> Get(srcs[i], "uri", "#") ] >>
           \o SourceCaptions(srcs, i + 1)

RECURSIVE HistoryCaptionsFrom(_, _)
HistoryCaptionsFrom(h, k) ==
    IF k > Len(h) THEN << >>
    ELSE ( IF "sources" \in DOMAIN h[k] /\ h[k].sources # << >>
           THEN SourceCaptions(h[k].sources, 1) ELSE << >> )
         \o HistoryCaptionsFrom(h, k + 1)

HistoryCaptions(h) == HistoryCaptionsFrom(h, 1)

----------------------------------------------------------------------------
(* Lines 157-166: the mood buttons, in MOOD_PROMPTS order, first click wins. *)

UserTurn(text) == [role |-> "user", content |-> text]

AssistantTurn(text) == [role |-> "assistant", content |-> text]

RECURSIVE MoodLoopFrom(_, _, _)
MoodLoopFrom(i, h, b) ==
    IF i > Len(MoodOrder)
    THEN [history |-> h, clicked |-> FALSE, input |-> NoText]
    ELSE IF MoodOrder[i] \in b
    THEN [ history |-> Append(h, UserTurn(MOOD_PROMPTS[MoodOrder[i]])),
           clicked |-> TRUE, input |-> MOOD_PROMPTS[MoodOrder[i]] ]
    ELSE MoodLoopFrom(i + 1, h, b)

(* The loop without the break of line 166. *)
RECURSIVE MoodLoopNoBreakFrom(_, _, _)
MoodLoopNoBreakFrom(i, acc, b) ==
    IF i > Len(MoodOrder) THEN acc
    ELSE IF MoodOrder[i] \in b
    THEN MoodLoopNoBreakFrom(i + 1,
           [ history |-> Append(acc.history, UserTurn(MOOD_PROMPTS[MoodOrder[i]])),
             clicked |-> TRUE, input |-> MOOD_PROMPTS[MoodOrder[i]] ], b)
    ELSE MoodLoopNoBreakFrom(i + 1, acc, b)

MoodLoopNoBreak(h, b) ==
    MoodLoopNoBreakFrom(1, [history |-> h, clicked |-> FALSE, input |-> NoText], b)

MoodLoop(h, b) == MoodLoopFrom(1, h, b)

(* Lines 171-177: the prompt and the user turn of a typed submission. *)

ActualInput(query, mood_input) == IF query # NoText THEN query ELSE mood_input

(* Line 175 without the guard of line 174. *)
UserTurnAlways(h, clicked, input) == Append(h, UserTurn(input))

UserTurnFromInput(h, clicked, input) ==
    IF ~clicked THEN Append(h, UserTurn(input)) ELSE h

----------------------------------------------------------------------------
(* Lines 103-133: get_ai_response.  outcome is what send_message does. *)

Raised(e) == [raised |-> TRUE, detail |-> e, response |-> << >>]

Returned(r) == [raised |-> FALSE, detail |-> NoText, response |-> << r >>]

(* get_ai_response without the st.error of line 132. *)
GetAiResponseSilent(outcome) ==
    [ response |-> IF outcome.raised THEN << >> ELSE outcome.response,
      errors |-> << >> ]

GetAiResponse(outcome) ==
    IF outcome.raised
    THEN [response |-> << >>, errors |-> << Fmt(COMM_ERROR, outcome.detail) >>]
    ELSE [response |-> outcome.response, errors |-> << >>]

(* Lines 215-227: the answer text, or a fixed fallback. *)

(* The handlers of lines 222-227 without their assignments: response_text *)
(* keeps its initial "".                                                  *)
ResponseTextNoFallback(resp) ==
    CASE resp.text.raises = "no" ->
           [text |-> resp.text.value, errors |-> << >>]
      [] resp.text.raises = "AttributeError" ->
           [text |-> NoText, errors |-> << TEXT_ACCESS_ERROR >>]
      [] OTHER ->
           [text |-> NoText, errors |-> << Fmt(TEXT_EXTRACT_ERROR, resp.text.value) >>]

ResponseText(resp) ==
    CASE resp.text.raises = "no" ->
           [text |-> resp.text.value, errors |-> << >>]
      [] resp.text.raises = "AttributeError" ->
           [text |-> FALLBACK_ATTR, errors |-> << TEXT_ACCESS_ERROR >>]
      [] OTHER ->
           [ text |-> FALLBACK_OTHER,
             errors |-> << Fmt(TEXT_EXTRACT_ERROR, resp.text.value) >> ]

(* Lines 250-251: the turn appended when get_ai_response returned None. *)

FailureTurn == AssistantTurn(NO_RESPONSE)

(* Lines 234-243: the sources of a grounded response. *)

RECURSIVE ChunkSources(_, _)
ChunkSources(chunks, i) ==
    IF i > Len(chunks) THEN [sources |-> << >>, captions |-> << >>]
    ELSE LET w    == chunks[i].web
             rest == ChunkSources(chunks, i + 1)
         IN  IF w.present /\ ~Falsy(w.uri)
             THEN [ sources  |-> << [title |-> w.title, uri |-> w.uri] >> \o rest.sources,
                    captions |-> << [ n |-> i,
                                      title |-> IF Falsy(w.title) THEN UNTITLED ELSE w.title,
                                      uri |-> w.uri ] >> \o rest.captions ]
             ELSE rest

NoSources == [raised |-> FALSE, sources |-> << >>, captions |-> << >>]

AttributeError == [raised |-> TRUE, sources |-> << >>, captions |-> << >>]

ExtractSources(resp) ==
    IF resp.candidates = << >> THEN NoSources
    ELSE LET gm == resp.candidates[1].grounding_metadata
         IN  IF ~gm.present THEN NoSources
             ELSE IF gm.grounding_attributions = "missing" THEN AttributeError
             ELSE IF gm.grounding_attributions = "empty"
                     /\ gm.web_search_queries = "missing" THEN AttributeError
             ELSE IF gm.grounding_attributions = "empty"
                     /\ gm.web_search_queries = "empty" THEN NoSources
             ELSE IF ~gm.has_chunks THEN AttributeError
             ELSE LET r == ChunkSources(gm.grounding_chunks, 1)
                  IN  [raised |-> FALSE, sources |-> r.sources, captions |-> r.captions]

(* Line 245: the sources recorded on the last turn of the log. *)

AttachSources(h, srcs) ==
    IF srcs # << >>
    THEN [ h EXCEPT ![Len(h)] =
             [ k \in DOMAIN h[Len(h)] \cup {"sources"} |->
                 IF k = "sources" THEN srcs ELSE h[Len(h)][k] ] ]
    ELSE h

----------------------------------------------------------------------------
(* The session. *)

AllCredentials ==
    { << e, s >> : e \in {None, "", "k1"}, s \in {"NoFile", None, "", "k2"} }

InitWith(sh, creds, n) ==
    /\ shapes = sh
    /\ runs_left = n
    /\ \E c \in creds : environ = c[1] /\ secrets = c[2]
    /\ chat_history = << >>
    /\ chat = None
    /\ pc = "startup"
    /\ buttons = {}
    /\ chat_input = NoText
    /\ api_key = None
    /\ secrets_read = FALSE
    /\ calls = {}
    /\ errors = << >>
    /\ captions = << >>
    /\ mood_button_clicked = FALSE
    /\ user_input_for_ai = NoText
    /\ actual_input = NoText
    /\ ai_response = << >>
    /\ sends = << >>
    /\ n0 = 0
    /\ prev_failed = FALSE

(* Spec: a session of up to MaxInteractions interactions over SessionResponses. *)
(* SpecShapes: one interaction over every response shape within MaxChunks.      *)
(* SpecStartup: one interaction under every credential configuration.           *)
Init == InitWith("session", { << "", "k2" >>, << None, None >> }, MaxInteractions)

InitShapes == InitWith("all", { << "k1", "NoFile" >> }, 1)

InitStartup == InitWith("session", AllCredentials, 1)

EndPcs == { "done", "stopped", "crashed" }

(* Lines 71-86. *)
Startup ==
    /\ pc = "startup"
    /\ \E fails \in { "none", "configure", "GenerativeModel" } :
         LET r == StartupResult(environ, secrets, fails)
         IN  /\ api_key' = r.api_key
             /\ secrets_read' = r.secrets_read
             /\ calls' = calls \cup r.calls
             /\ errors' = errors \o r.errors
             /\ pc' = IF r.stop THEN "stopped" ELSE "session"
    /\ UNCHANGED << environ, secrets, shapes, runs_left, chat_history, chat, buttons,
                    chat_input, captions, mood_button_clicked, user_input_for_ai,
                    actual_input, ai_response, sends, n0, prev_failed >>

(* Lines 90-99: start_chat is called outside any try. *)
SessionInit ==
    /\ pc = "session"
    /\ IF chat # None
       THEN /\ pc' = "render"
            /\ UNCHANGED << chat, calls >>
       ELSE /\ calls' = calls \cup {"start_chat"}
            /\ \E ok \in BOOLEAN :
                 /\ chat' = IF ok THEN "ChatSession" ELSE None
                 /\ pc' = IF ok THEN "render" ELSE "crashed"
    /\ UNCHANGED << environ, secrets, shapes, runs_left, chat_history, buttons,
                    chat_input, api_key, secrets_read, errors, captions,
                    mood_button_clicked, user_input_for_ai, actual_input,
                    ai_response, sends, n0, prev_failed >>

(* Lines 138-152. *)
RenderHistory ==
    /\ pc = "render"
    /\ captions' = captions \o HistoryCaptions(chat_history)
    /\ pc' = "moods"
    /\ UNCHANGED << environ, secrets, shapes, runs_left, chat_history, chat, buttons,
                    chat_input, api_key, secrets_read, calls, errors,
                    mood_button_clicked, user_input_for_ai, actual_input,
                    ai_response, sends, n0, prev_failed >>

(* Lines 157-166. *)
MoodButtons ==
    /\ pc = "moods"
    /\ LET r == MoodLoop(chat_history, buttons)
       IN  /\ chat_history' = r.history
           /\ mood_button_clicked' = r.clicked
           /\ user_input_for_ai' = r.input
    /\ pc' = "input"
    /\ UNCHANGED << environ, secrets, shapes, runs_left, chat, buttons, chat_input,
                    api_key, secrets_read, calls, errors, captions, actual_input,
                    ai_response, sends, n0, prev_failed >>

(* Lines 169-177. *)
ChatInput ==
    /\ pc = "input"
    /\ IF chat_input # NoText \/ mood_button_clicked
       THEN /\ actual_input' = ActualInput(chat_input, user_input_for_ai)
            /\ chat_history' = UserTurnFromInput(chat_history, mood_button_clicked,
                                                 ActualInput(chat_input, user_input_for_ai))
            /\ pc' = "send"
       ELSE /\ pc' = "done"
            /\ UNCHANGED << actual_input, chat_history >>
    /\ UNCHANGED << environ, secrets, shapes, runs_left, chat, buttons, chat_input,
                    api_key, secrets_read, calls, errors, captions,
                    mood_button_clicked, user_input_for_ai, ai_response, sends, n0,
                    prev_failed >>

(* Lines 179-212: the model object is built again, then get_ai_response. *)
Send ==
    /\ pc = "send"
    /\ \E outcome \in { Raised(e) : e \in ErrDetails }
                        \cup { Returned(r) : r \in Responses(shapes) } :
         LET g == GetAiResponse(outcome)
         IN  /\ ai_response' = g.response
             /\ errors' = errors \o g.errors
             /\ sends' = Append(sends, [ prompt |-> actual_input,
                                          raised |-> outcome.raised,
                                          detail |-> outcome.detail ])
    /\ calls' = calls \cup {"GenerativeModel", "send_message"}
    /\ pc' = "respond"
    /\ UNCHANGED << environ, secrets, shapes, runs_left, chat_history, chat, buttons,
                    chat_input, api_key, secrets_read, captions, mood_button_clicked,
                    user_input_for_ai, actual_input, n0, prev_failed >>

(* Lines 214-231 and 250-252. *)
AppendAssistant ==
    /\ pc = "respond"
    /\ IF ai_response # << >>
       THEN LET t == ResponseText(ai_response[1])
            IN  /\ errors' = errors \o t.errors
                /\ chat_history' = Append(chat_history, AssistantTurn(t.text))
                /\ pc' = "sources"
       ELSE /\ chat_history' = Append(chat_history, FailureTurn)
            /\ pc' = "done"
            /\ UNCHANGED errors
    /\ UNCHANGED << environ, secrets, shapes, runs_left, chat, buttons, chat_input,
                    api_key, secrets_read, calls, captions, mood_button_clicked,
                    user_input_for_ai, actual_input, ai_response, sends, n0,
                    prev_failed >>

(* Lines 234-249: an AttributeError here is caught nowhere and ends the run. *)
Sources ==
    /\ pc = "sources"
    /\ LET r == ExtractSources(ai_response[1])
       IN  /\ captions' = captions \o r.captions
           /\ chat_history' = IF r.raised THEN chat_history
                              ELSE AttachSources(chat_history, r.sources)
           /\ pc' = IF r.raised THEN "crashed" ELSE "done"
    /\ UNCHANGED << environ, secrets, shapes, runs_left, chat, buttons, chat_input,
                    api_key, secrets_read, calls, errors, mood_button_clicked,
                    user_input_for_ai, actual_input, ai_response, sends, n0,
                    prev_failed >>

(* The next widget event (or st.rerun at line 249) runs the script again: only *)
(* st.session_state is kept.                                                   *)
Rerun ==
    /\ pc \in EndPcs
    /\ \E b \in ClickSets, q \in {NoText} \cup Queries :
         /\ (b # {} \/ q # NoText) => runs_left > 0
         /\ runs_left' = IF b # {} \/ q # NoText THEN runs_left - 1 ELSE runs_left
         /\ buttons' = b
         /\ chat_input' = q
    /\ prev_failed' = IF sends # << >> THEN sends[1].raised ELSE prev_failed
    /\ pc' = "startup"
    /\ api_key' = None
    /\ secrets_read' = FALSE
    /\ errors' = << >>
    /\ captions' = << >>
    /\ mood_button_clicked' = FALSE
    /\ user_input_for_ai' = NoText
    /\ actual_input' = NoText
    /\ ai_response' = << >>
    /\ sends' = << >>
    /\ n0' = Len(chat_history)
    /\ UNCHANGED << environ, secrets, shapes, chat_history, chat, calls >>

Next ==
    \/ Startup
    \/ SessionInit
    \/ RenderHistory
    \/ MoodButtons
    \/ ChatInput
    \/ Send
    \/ AppendAssistant
    \/ Sources
    \/ Rerun

Spec == Init /\ [][Next]_vars

SpecShapes == InitShapes /\ [][Next]_vars

SpecStartup == InitStartup /\ [][Next]_vars

----------------------------------------------------------------------------
(* Properties. *)

Last(h) == h[Len(h)]

Range(q) == { q[i] : i \in DOMAIN q }

RunEnded == pc \in EndPcs

(* This run called get_ai_response. *)
Called == sends # << >>

(* This run went through the mood buttons and the chat input. *)
PassedInput == pc \in {"send", "respond", "sources", "done"} \/ (pc = "crashed" /\ Called)

Interacted == PassedInput /\ (buttons # {} \/ chat_input # NoText)

Response == ai_response[1]

Grounding == Response.candidates[1].grounding_metadata

\* C1: every change of chat_history appends exactly one turn at the end; no
\* turn already in the log is removed, reordered, or gets a field added or
\* changed.
C1_AppendOnly ==
    [][ chat_history' # chat_history =>
          /\ Len(chat_history') = Len(chat_history) + 1
          /\ SubSeq(chat_history', 1, Len(chat_history)) = chat_history ]_vars

\* C2 (as claimed): when send_message raises, the run ends without an escaping
\* exception and the assistant turn it appended contains the error detail.
C2_ApologyCarriesDetail ==
    (RunEnded /\ Called /\ sends[1].raised) =>
        /\ pc = "done"
        /\ Len(chat_history) = n0 + 2
        /\ Last(chat_history).role = "assistant"
        /\ Contains(Last(chat_history).content, sends[1].detail)

\* C2 (amended): when send_message raises, the run ends without an escaping
\* exception, the assistant turn it appended is the fixed apology, which does
\* not contain the error detail, and the detail is shown in an st.error
\* diagnostic of that run.
C2_FixedApologyAndDiagnostic ==
    (RunEnded /\ Called /\ sends[1].raised) =>
        /\ pc = "done"
        /\ Len(chat_history) = n0 + 2
        /\ Last(chat_history) =
             [ role |-> "assistant",
               content |-> Lit("Sorry, I couldn't get a response. Please try again.") ]
        /\ ~Contains(Last(chat_history).content, sends[1].detail)
        /\ \E d \in Range(errors) : Contains(d, sends[1].detail)

C2_Witness ==
    /\ pc = "done" /\ Called /\ sends[1].raised
    /\ sends[1].detail = Lit("e1")
    /\ n0 = 2

HasUri(chunk) == chunk.web.present /\ ~Falsy(chunk.web.uri)

Uris(srcs) == [ i \in DOMAIN srcs |-> srcs[i].uri ]

ChunkUris(chunks) ==
    LET kept == SelectSeq(chunks, HasUri)
    IN  [ i \in DOMAIN kept |-> kept[i].web.uri ]

\* C3: for a grounded response whose metadata has all three fields, the sources
\* recorded on the assistant turn are the chunks with a non-empty URI, in the
\* provider's order, without deduplication, whether or not
\* grounding_attributions or web_search_queries are populated.
C3_SourcesAreUriChunks ==
    ( /\ pc = "done" /\ Called /\ ~sends[1].raised
      /\ Response.candidates # << >>
      /\ Grounding.present
      /\ Grounding.grounding_attributions # "missing"
      /\ Grounding.web_search_queries # "missing"
      /\ Grounding.has_chunks ) =>
        Uris(Get(Last(chat_history), "sources", << >>))
          = ChunkUris(Grounding.grounding_chunks)

\* C4: every source recorded in the log carries a title (the placeholder when
\* the provider gave none), and every source caption rendered, at first
\* display or from the history in a later run, shows a title.
C4_PlaceholderTitles ==
    /\ \A k \in DOMAIN chat_history :
         "sources" \in DOMAIN chat_history[k] =>
            \A i \in DOMAIN chat_history[k].sources :
               ~Falsy(chat_history[k].sources[i].title)
    /\ \A i \in DOMAIN captions : ~Falsy(captions[i].title)

\* C5: whatever the shape of the response a successful send_message returned,
\* the run ends without an escaping exception, with an assistant turn holding
\* the answer text or a fixed fallback text.
C5_NormalizationNeverRaises ==
    (RunEnded /\ Called /\ ~sends[1].raised) =>
        /\ pc = "done"
        /\ Len(chat_history) = n0 + 2
        /\ Last(chat_history).role = "assistant"
        /\ Last(chat_history).content \in Answers \cup {FALLBACK_ATTR, FALLBACK_OTHER}

CredentialAbsent == Falsy(environ) /\ (secrets = "NoFile" \/ Falsy(secrets))

\* C6: with the credential absent from the environment and from the secrets
\* store, every run halts at startup with a diagnostic, no collaborator
\* operation is ever invoked and no turn is ever appended; the secrets store
\* is consulted exactly when the environment variable is unset or empty, and
\* a set environment variable is the key used.
C6_NoCredentialNoCalls ==
    /\ CredentialAbsent =>
         /\ pc \in {"startup", "stopped"}
         /\ pc = "stopped" => errors # << >>
         /\ calls = {}
         /\ chat = None
         /\ chat_history = << >>
    /\ secrets_read => Falsy(environ)
    /\ pc # "startup" => (secrets_read <=> Falsy(environ))
    /\ (pc # "startup" /\ ~Falsy(environ)) => api_key = environ

C6_Witness ==
    /\ CredentialAbsent
    /\ environ = "" /\ secrets = None
    /\ pc = "stopped"
    /\ buttons # {}
    /\ errors = << KEY_NOT_FOUND >>

\* C7: a run in which mood buttons report a click appends exactly one user
\* turn, whose content is exactly the preset of a clicked mood (of the one
\* clicked, when only one is), however many report a click.
C7_MoodPreset ==
    (PassedInput /\ buttons # {}) =>
        /\ mood_button_clicked
        /\ Len(chat_history) > n0
        /\ chat_history[n0 + 1].role = "user"
        /\ \E m \in buttons : chat_history[n0 + 1].content = MOOD_PROMPTS[m]
        /\ Cardinality({ k \in (n0 + 1)..Len(chat_history) :
                           chat_history[k].role = "user" }) = 1
        /\ buttons = {"Funny"} =>
             chat_history[n0 + 1].content =
                Lit("I need a good laugh! What are some funny movies or series?")
        /\ buttons = {"Happy"} =>
             chat_history[n0 + 1].content =
                Lit("I'm in the mood for something happy and uplifting! Can you recommend some movies or series?")

C7_Witness ==
    /\ pc = "done"
    /\ buttons = {"Thoughtful", "Funny"}
    /\ chat_input # NoText
    /\ Len(chat_history) = n0 + 2

UserText == IF mood_button_clicked THEN user_input_for_ai ELSE chat_input

AfterFailure == RunEnded /\ prev_failed /\ Called /\ ~sends[1].raised

Retained ==
    /\ chat = "ChatSession"
    /\ n0 >= 2
    /\ Len(chat_history) = n0 + 2
    /\ chat_history[n0] =
         [ role |-> "assistant",
           content |-> Lit("Sorry, I couldn't get a response. Please try again.") ]
    /\ chat_history[n0 + 1] = [role |-> "user", content |-> UserText]
    /\ Last(chat_history).role = "assistant"

\* C8 (as claimed): after a run whose collaborator call failed, the chat handle
\* and the log are retained, and a later submission whose call succeeds
\* appends its user turn and an assistant turn carrying the provider's answer.
C8_AnswerAfterFailure ==
    AfterFailure =>
        /\ Retained
        /\ Last(chat_history).content \in Answers

\* C8 (amended): ... appends its user turn and an assistant turn carrying the
\* provider's answer text or, when the response's text accessor raises, the
\* fixed fallback text of the handler that caught it.
C8_AnswerOrFallbackAfterFailure ==
    AfterFailure =>
        /\ Retained
        /\ Response.text.raises = "no" =>
             Last(chat_history).content = Response.text.value
        /\ Response.text.raises = "AttributeError" =>
             Last(chat_history).content =
                Lit("Sorry, I encountered an issue processing the response.")
        /\ Response.text.raises = "Exception" =>
             Last(chat_history).content =
                Lit("Sorry, I had trouble understanding the AI's answer.")

C8_Witness ==
    /\ AfterFailure
    /\ pc = "done"
    /\ Response.text.raises = "no"
    /\ Last(chat_history).content = Lit("a1")
    /\ "sources" \in DOMAIN Last(chat_history)

\* C9: the prompt handed to get_ai_response is the content of the user turn
\* the same run appended, also when a mood click and a typed input coincide.
C9_SentIsUserTurn ==
    Called =>
        /\ Len(chat_history) > n0
        /\ chat_history[n0 + 1].role = "user"
        /\ sends[1].prompt = chat_history[n0 + 1].content

====
